---- MODULE Spec2Model ----
(***************************************************************************)
(* sync-color-schemes (src/sync-color-schemes/src/main.rs): the cache      *)
(* backed fetch layer (fetch_url) and the scheme merge engine (SchemeSet:  *)
(* load_existing, add, accumulate, sync_toml; bake_for_config; main).      *)
(*                                                                         *)
(* Text is a sequence of characters.  Scheme names are sequences of ASCII  *)
(* codes (so that make_prefix, to_ascii_lowercase and the byte order of    *)
(* String are computed, not assumed); header values are sequences of       *)
(* one-character strings.  Option<T> is a sequence of length 0 or 1.       *)
(***************************************************************************)
EXTENDS Integers, Sequences, FiniteSets, TLC

VARIABLES
    now,                      \* wall clock, in seconds
    cache,                    \* CACHE topic "data-by-url": url -> Option<[data, expires]>
    fetched,                  \* history: the fetch_url call that returned last, until a call begins
    lastNet,                  \* history: url -> the last successful network fetch of it
    calls,                    \* task -> the fetch_url call it awaits, and where that is
    dataFile,                 \* docs/colorschemes/data.json
    codeFile,                 \* config/src/scheme_data.rs
    pc,                       \* position of main
    source,                   \* index of the next source main syncs
    run,                      \* number of the current run of the program
    by_name,                  \* SchemeSet.by_name
    version_by_color_scheme,  \* SchemeSet.version_by_color_scheme
    version_by_name,          \* SchemeSet.version_by_name
    trace                     \* history of the registry operations of this run

vars == <<now, cache, fetched, lastNet, calls, dataFile, codeFile, pc, source, run,
          by_name, version_by_color_scheme, version_by_name, trace>>

fetchVars == <<now, cache, fetched, lastNet, calls>>
fileVars  == <<dataFile, codeFile>>
regVars   == <<by_name, version_by_color_scheme, version_by_name>>

None == <<>>
Some(x) == <<x>>

Range(s) == {s[i] : i \in DOMAIN s}

Min(S) == CHOOSE x \in S : \A y \in S : x <= y

(***************************************************************************)
(* Bounds of the model.                                                    *)
(***************************************************************************)
\* The clock moves at most this many seconds, around one jump of a day.
MaxTick == 1
\* The program is run at most this many times in a row.
MaxRuns == 2
\* An archive holds at most this many entries.
MaxDocs == 2
\* A registry session makes at most this many add() calls.
MaxAdds == 2
\* The previously published dataset holds at most this many records.
MaxPrior == 2

(***************************************************************************)
(* fetch_url: the cache and the TTL of a response.                         *)
(***************************************************************************)
DefaultTtlSecs == 86400

StatusOk == 200

\* Characters of header values.  "<80>" stands for one byte that is not
\* visible ASCII: HeaderValue::to_str fails on a value that holds it.
Digits == {"0", "1", "2", "3", "4", "5", "6", "7", "8", "9"}

DigitVal(ch) ==
    CASE ch = "0" -> 0 [] ch = "1" -> 1 [] ch = "2" -> 2 [] ch = "3" -> 3
      [] ch = "4" -> 4 [] ch = "5" -> 5 [] ch = "6" -> 6 [] ch = "7" -> 7
      [] ch = "8" -> 8 [] ch = "9" -> 9

to_str(value) ==
    IF \E i \in DOMAIN value : value[i] = "<80>" THEN None ELSE Some(value)

\* str::splitn(2, "="): at most two fields, split at the first "=".
splitn2(value) ==
    LET eqs == {i \in DOMAIN value : value[i] = "="}
    IN  IF eqs = {} THEN <<value>>
        ELSE LET k == Min(eqs)
             IN  <<SubSeq(value, 1, k - 1), SubSeq(value, k + 1, Len(value))>>

RECURSIVE DecimalValue(_)
DecimalValue(s) ==
    IF s = <<>> THEN 0
    ELSE 10 * DecimalValue(SubSeq(s, 1, Len(s) - 1)) + DigitVal(s[Len(s)])

\* str::parse::<u64>: an optional "+", then one or more decimal digits and
\* nothing else.  (Values of the model stay far below 2^64.)
parse_u64(s) ==
    LET digits == IF s # <<>> /\ s[1] = "+" THEN Tail(s) ELSE s
    IN  IF digits # <<>> /\ \A i \in DOMAIN digits : digits[i] \in Digits
        THEN Some(DecimalValue(digits))
        ELSE None

MaxAge == <<"m", "a", "x", "-", "a", "g", "e">>

\* The TTL of a response, from its Cache-Control header.
resolve_ttl(resp) ==
    IF resp.cache_control = None THEN DefaultTtlSecs
    ELSE LET value == to_str(resp.cache_control[1])
         IN  IF value = None THEN DefaultTtlSecs
             ELSE LET fields == splitn2(value[1])
                  IN  IF Len(fields) = 2 /\ fields[1] = MaxAge
                          /\ parse_u64(fields[2]) # None
                      THEN parse_u64(fields[2])[1]
                      ELSE DefaultTtlSecs

\* String::from_utf8_lossy on the bodies of the model, whose bytes are ASCII
\* or 255 (a byte no UTF-8 text holds): such a byte becomes U+FFFD.
from_utf8_lossy(bytes) ==
    [i \in DOMAIN bytes |-> IF bytes[i] < 128 THEN bytes[i] ELSE 65533]

\* sqlite_cache Topic::get_for_update: the bytes of a live entry.
get_for_update(c, url, t) ==
    IF c[url] # None /\ t < c[url][1].expires THEN Some(c[url][1].data) ELSE None

\* sqlite_cache updater.write(data, ttl): the entry expires at now + ttl.
updater_write(c, url, data, ttl, t) ==
    [c EXCEPT ![url] = Some([data |-> data, expires |-> t + ttl])]

Ok(v) == [ok |-> TRUE, value |-> v]
Err(e) == [ok |-> FALSE, value |-> e]

\* A call of fetch_url, as the task that awaits it holds it.  fetch_url is
\* an async fn: it gives the executor the control at get_for_update().await,
\* at send().await and at bytes().await, and stage is the await it is
\* suspended in ("returned": it has returned result to its caller).
\* status, header and ttl are what it keeps of the response while the body
\* is awaited; requested: it issued a network request.  found is history:
\* the entry of the URL, none or expired, that was in the cache when the call
\* looked it up and missed.
Idle ==
    [stage |-> "idle", url |-> None, as_str |-> FALSE,
     status |-> 0, header |-> None, ttl |-> 0,
     result |-> None, requested |-> FALSE, found |-> None]

\* fetch_url(url) is called and runs to get_for_update(url).await; as_str:
\* it is called by fetch_url_as_str(url)
Called(url, as_str) ==
    [Idle EXCEPT !.stage = "get_for_update", !.url = url, !.as_str = as_str]

\* the call returns result
Returned(call, result) ==
    [Idle EXCEPT !.stage = "returned", !.result = Some(result),
                 !.requested = call.requested]

\* A fetch_url that stores the response before it looks at the status.
fetch_url_caching_failures(c, t, call, resp) ==
    IF call.stage = "get_for_update"
    THEN LET item == get_for_update(c, call.url, t)
         IN  IF item # None
             THEN [call |-> Returned(call, Ok(item[1])), cache |-> c]
             ELSE [call |-> [call EXCEPT !.stage = "send", !.requested = TRUE], cache |-> c]
    ELSE IF call.stage = "send"
    THEN IF resp.kind = "send_error"
         THEN [call |-> Returned(call, Err(<<"fetching", call.url>>)), cache |-> c]
         ELSE [call |-> [call EXCEPT !.stage = "bytes", !.status = resp.status,
                                     !.header = resp.cache_control,
                                     !.ttl = resolve_ttl(resp)],
               cache |-> c]
    ELSE IF resp.kind = "body_error"
    THEN [call |-> Returned(call, Err(<<"reqwest">>)), cache |-> c]
    ELSE [call |-> Returned(call, IF call.status # StatusOk
                                  THEN Err(from_utf8_lossy(resp.body.bytes))
                                  ELSE Ok(resp.body)),
          cache |-> updater_write(c, call.url, resp.body, call.ttl, t)]

\* A fetch_url that never looks in the cache.
fetch_url_no_lookup(c, t, call, resp) ==
    IF call.stage = "get_for_update"
    THEN [call |-> [call EXCEPT !.stage = "send", !.requested = TRUE], cache |-> c]
    ELSE IF call.stage = "send"
    THEN IF resp.kind = "send_error"
         THEN [call |-> Returned(call, Err(<<"fetching", call.url>>)), cache |-> c]
         ELSE [call |-> [call EXCEPT !.stage = "bytes", !.status = resp.status,
                                     !.header = resp.cache_control,
                                     !.ttl = resolve_ttl(resp)],
               cache |-> c]
    ELSE IF resp.kind = "body_error"
    THEN [call |-> Returned(call, Err(<<"reqwest">>)), cache |-> c]
    ELSE IF call.status # StatusOk
    THEN [call |-> Returned(call, Err(from_utf8_lossy(resp.body.bytes))), cache |-> c]
    ELSE [call |-> Returned(call, Ok(resp.body)),
          cache |-> updater_write(c, call.url, resp.body, call.ttl, t)]

\* fetch_url, resumed at time t over cache c in the await call.stage, up to
\* its next await or its return: the call and the cache it leaves.  resp is
\* what the network has answered by then: nothing at the lookup, the status
\* and the headers (or an error) when send() is done, the body (or an error)
\* when bytes() is done.
\*   get_for_update (lines 46-60): a live entry is returned, otherwise the
\*     request is sent;
\*   send (lines 60-76): a failed request is the error "fetching {url}",
\*     otherwise the TTL is read from Cache-Control and the body is asked for;
\*   bytes (lines 76-83): a failed transfer is reqwest's error and a status
\*     other than 200 the error whose text is the body; otherwise the body is
\*     written to the cache with the TTL and returned.
fetch_url(c, t, call, resp) ==
    IF call.stage = "get_for_update"
    THEN LET item == get_for_update(c, call.url, t)
         IN  IF item # None
             THEN [call |-> Returned(call, Ok(item[1])), cache |-> c]
             ELSE [call |-> [call EXCEPT !.stage = "send", !.requested = TRUE], cache |-> c]
    ELSE IF call.stage = "send"
    THEN IF resp.kind = "send_error"
         THEN [call |-> Returned(call, Err(<<"fetching", call.url>>)), cache |-> c]
         ELSE [call |-> [call EXCEPT !.stage = "bytes", !.status = resp.status,
                                     !.header = resp.cache_control,
                                     !.ttl = resolve_ttl(resp)],
               cache |-> c]
    ELSE IF resp.kind = "body_error"
    THEN [call |-> Returned(call, Err(<<"reqwest">>)), cache |-> c]
    ELSE IF call.status # StatusOk
    THEN [call |-> Returned(call, Err(from_utf8_lossy(resp.body.bytes))), cache |-> c]
    ELSE [call |-> Returned(call, Ok(resp.body)),
          cache |-> updater_write(c, call.url, resp.body, call.ttl, t)]

\* String::from_utf8 on the bodies of the model: a body that holds the byte
\* 255 is no UTF-8 text.
from_utf8(bytes) ==
    IF \E i \in DOMAIN bytes : bytes[i] >= 128 THEN None ELSE Some(bytes)

\* fetch_url_as_str(url), resumed like the fetch_url it awaits: when that
\* returns, its error is put in the context "fetching {url}" and its bytes
\* are made a String.
fetch_url_as_str(c, t, call, resp) ==
    LET out == fetch_url(c, t, call, resp)
        result == out.call.result[1]
    IN  IF out.call.stage # "returned" THEN out
        ELSE IF ~result.ok
        THEN [out EXCEPT !.call.result =
                             Some(Err(<<"fetching", call.url, result.value>>))]
        ELSE IF from_utf8(result.value.bytes) = None
        THEN [out EXCEPT !.call.result = Some(Err(<<"converting", call.url>>))]
        ELSE [out EXCEPT !.call.result = Some(Ok(from_utf8(result.value.bytes)[1]))]

(***************************************************************************)
(* Text: names are sequences of ASCII codes, ordered as Rust orders        *)
(* String (byte by byte).                                                  *)
(***************************************************************************)
IsDigit(c) == 48 <= c /\ c <= 57
IsLower(c) == 97 <= c /\ c <= 122
IsUpper(c) == 65 <= c /\ c <= 90

to_ascii_lowercase(key) ==
    [i \in DOMAIN key |-> IF IsUpper(key[i]) THEN key[i] + 32 ELSE key[i]]

\* a < b for String
StrLess(a, b) ==
    \/ \E k \in DOMAIN b :
          /\ k <= Len(a) + 1
          /\ \A i \in 1..(k - 1) : a[i] = b[i]
          /\ (k = Len(a) + 1 \/ a[k] < b[k])

StrLeq(a, b) == a = b \/ StrLess(a, b)

\* a prefix that is only the case-folded name
make_prefix_name_only(key) ==
    IF \E i \in DOMAIN key : IsDigit(key[i]) \/ IsLower(key[i]) \/ IsUpper(key[i])
    THEN Some(<<0, to_ascii_lowercase(key)>>)
    ELSE None

\* make_prefix(key): Some(<<c, lowercased key>>), or None where it panics
\* ("no good prefix").
make_prefix(key) ==
    LET good == {i \in DOMAIN key :
                    IsDigit(key[i]) \/ IsLower(key[i]) \/ IsUpper(key[i])}
    IN  IF good = {} THEN None
        ELSE LET c == key[Min(good)]
             IN  Some(<<IF IsUpper(c) THEN c + 32 ELSE c, to_ascii_lowercase(key)>>)

\* the order of (char, String) tuples
KeyLess(k1, k2) == k1[1] < k2[1] \/ (k1[1] = k2[1] /\ StrLess(k1[2], k2[2]))
KeyLeq(k1, k2) == ~KeyLess(k2, k1)

(***************************************************************************)
(* Schemes.                                                                *)
(***************************************************************************)
NightlyVersion == <<"nightly builds only">>

apply_nightly_version(metadata) ==
    [metadata EXCEPT !.wezterm_version = NightlyVersion]

\* serde_json::to_string of a colors document
SerializeColors(colors) ==
    <<"{ansi:", colors.ansi, ",foreground:", colors.foreground, "}">>

\* Scheme::to_json_value: the record written to data.json
to_json_value(s) == [colors |-> s.data.colors, metadata |-> s.data.metadata]

\* ColorSchemeFile::from_json_value
from_json_value(item) == [colors |-> item.colors, metadata |-> item.metadata]

\* Scheme::to_toml: the text of the scheme in the generated listing
to_toml(s) == <<"toml", s.data.colors, s.data.metadata>>

MkScheme(name, colors, aliases, version, origin) ==
    [name |-> name, file_name |-> None,
     data |-> [colors |-> colors,
               metadata |-> [name |-> Some(name), aliases |-> aliases,
                             origin_url |-> origin, wezterm_version |-> version]]]

EmptyMap == <<>>

MapRemove(m, k) == [x \in DOMAIN m \ {k} |-> m[x]]

(***************************************************************************)
(* SchemeSet::load_existing                                                *)
(***************************************************************************)
\* the records of data.json; a missing file reads as no record
Records(file) == IF file = None THEN <<>> ELSE file[1]

LastIndex(S) == CHOOSE i \in S : \A j \in S : j <= i

\* a load_existing that indexes versions by name only
load_existing_no_palette_index(file) ==
    LET existing == Records(file)
        versioned == {i \in DOMAIN existing :
                         existing[i].metadata.wezterm_version # None}
        names == {existing[i].metadata.name[1] : i \in versioned}
        loaded == {i \in DOMAIN existing :
                      from_json_value(existing[i]).colors.ansi # None}
        keys == {existing[i].metadata.name[1] : i \in loaded}
    IN  [by_name |->
            [k \in keys |->
                LET i == LastIndex({j \in loaded : existing[j].metadata.name[1] = k})
                IN  [name |-> k, file_name |-> None,
                     data |-> from_json_value(existing[i])]],
         version_by_color_scheme |-> EmptyMap,
         version_by_name |->
            [k \in names |->
                existing[LastIndex({i \in versioned :
                    existing[i].metadata.name[1] = k})].metadata.wezterm_version[1]]]

\* a load_existing that enters every record in by_name
load_existing_keeping_placeholders(file) ==
    LET existing == Records(file)
        versioned == {i \in DOMAIN existing :
                         existing[i].metadata.wezterm_version # None}
        idents == {SerializeColors(existing[i].colors) : i \in versioned}
        names == {existing[i].metadata.name[1] : i \in versioned}
        loaded == DOMAIN existing
        keys == {existing[i].metadata.name[1] : i \in loaded}
    IN  [by_name |->
            [k \in keys |->
                LET i == LastIndex({j \in loaded : existing[j].metadata.name[1] = k})
                IN  [name |-> k, file_name |-> None,
                     data |-> from_json_value(existing[i])]],
         version_by_color_scheme |->
            [id \in idents |->
                existing[LastIndex({i \in versioned :
                    SerializeColors(existing[i].colors) = id})].metadata.wezterm_version[1]],
         version_by_name |->
            [k \in names |->
                existing[LastIndex({i \in versioned :
                    existing[i].metadata.name[1] = k})].metadata.wezterm_version[1]]]

load_existing(file) ==
    LET existing == Records(file)
        versioned == {i \in DOMAIN existing :
                         existing[i].metadata.wezterm_version # None}
        idents == {SerializeColors(existing[i].colors) : i \in versioned}
        names == {existing[i].metadata.name[1] : i \in versioned}
        loaded == {i \in DOMAIN existing :
                      from_json_value(existing[i]).colors.ansi # None}
        keys == {existing[i].metadata.name[1] : i \in loaded}
    IN  [by_name |->
            [k \in keys |->
                LET i == LastIndex({j \in loaded : existing[j].metadata.name[1] = k})
                IN  [name |-> k, file_name |-> None,
                     data |-> from_json_value(existing[i])]],
         version_by_color_scheme |->
            [id \in idents |->
                existing[LastIndex({i \in versioned :
                    SerializeColors(existing[i].colors) = id})].metadata.wezterm_version[1]],
         version_by_name |->
            [k \in names |->
                existing[LastIndex({i \in versioned :
                    existing[i].metadata.name[1] = k})].metadata.wezterm_version[1]]]

(***************************************************************************)
(* SchemeSet::add                                                          *)
(***************************************************************************)
\* the first declared alias that version_by_name knows
FirstAliasVersion(reg, aliases) ==
    LET hits == {i \in DOMAIN aliases : aliases[i] \in DOMAIN reg.version_by_name}
    IN  IF hits = {} THEN None ELSE Some(reg.version_by_name[aliases[Min(hits)]])

\* a version lookup that asks for the name before the palette
resolve_version_name_first(reg, candidate) ==
    LET ident == SerializeColors(to_json_value(candidate).colors)
    IN  IF candidate.name \in DOMAIN reg.version_by_name
        THEN Some(reg.version_by_name[candidate.name])
        ELSE IF ident \in DOMAIN reg.version_by_color_scheme
        THEN Some(reg.version_by_color_scheme[ident])
        ELSE FirstAliasVersion(reg, candidate.data.metadata.aliases)

\* steps 2 to 4 of add: the version lookup
resolve_version(reg, candidate) ==
    LET ident == SerializeColors(to_json_value(candidate).colors)
    IN  IF ident \in DOMAIN reg.version_by_color_scheme
        THEN Some(reg.version_by_color_scheme[ident])
        ELSE IF candidate.name \in DOMAIN reg.version_by_name
        THEN Some(reg.version_by_name[candidate.name])
        ELSE FirstAliasVersion(reg, candidate.data.metadata.aliases)

\* an insertion that keeps the aliases the candidate declared
inserted_with_declared_aliases(reg, candidate) ==
    LET version == resolve_version(reg, candidate)
    IN  IF version # None
        THEN [candidate EXCEPT !.data.metadata.wezterm_version = version]
        ELSE candidate

\* the entry add() inserts when no entry matched the candidate
inserted(reg, candidate) ==
    LET version == resolve_version(reg, candidate)
        stamped == IF version # None
                   THEN [candidate EXCEPT !.data.metadata.wezterm_version = version]
                   ELSE candidate
    IN  IF candidate.name \in DOMAIN reg.by_name
        THEN [stamped EXCEPT !.data.metadata.aliases =
                                reg.by_name[candidate.name].data.metadata.aliases]
        ELSE stamped

\* a scan that stops at an entry equal to the candidate in every field only
matching_whole_scheme_only(reg, candidate) ==
    {n \in DOMAIN reg.by_name : candidate = reg.by_name[n]}

\* the entries the scan of add() can stop at
matching(reg, candidate) ==
    {n \in DOMAIN reg.by_name :
        \/ candidate = reg.by_name[n]
        \/ candidate.data.colors = reg.by_name[n].data.colors}

\* an add that matches by name only
add_without_palette_scan(reg, candidate) ==
    {[k \in DOMAIN reg.by_name \cup {candidate.name} |->
         IF k = candidate.name THEN inserted(reg, candidate) ELSE reg.by_name[k]]}

\* an add that moves the entry it matched to the name of the candidate
add_renaming_matched_entry(reg, candidate) ==
    IF matching(reg, candidate) # {}
    THEN {[k \in (DOMAIN reg.by_name \ {n}) \cup {candidate.name} |->
              IF k = candidate.name
              THEN [reg.by_name[n] EXCEPT !.name = candidate.name,
                                          !.data.metadata.aliases = Append(@, n)]
              ELSE reg.by_name[k]] :
            n \in matching(reg, candidate)}
    ELSE {[k \in DOMAIN reg.by_name \cup {candidate.name} |->
              IF k = candidate.name THEN inserted(reg, candidate) ELSE reg.by_name[k]]}

\* add(candidate): the values by_name can have afterwards, one per entry the
\* scan can stop at (HashMap iterates in an arbitrary order).
add(reg, candidate) ==
    IF matching(reg, candidate) # {}
    THEN {[reg.by_name EXCEPT ![n].data.metadata.aliases = Append(@, candidate.name)] :
            n \in matching(reg, candidate)}
    ELSE {[k \in DOMAIN reg.by_name \cup {candidate.name} |->
              IF k = candidate.name THEN inserted(reg, candidate) ELSE reg.by_name[k]]}

(***************************************************************************)
(* bake_for_config                                                         *)
(***************************************************************************)
RECURSIVE InsertString(_, _)
InsertString(sorted, x) ==
    IF sorted = <<>> THEN <<x>>
    ELSE IF StrLess(x, Head(sorted)) THEN <<x>> \o sorted
    ELSE <<Head(sorted)>> \o InsertString(Tail(sorted), x)

\* Vec<String>::sort
RECURSIVE sort(_)
sort(v) == IF v = <<>> THEN <<>> ELSE InsertString(sort(SubSeq(v, 1, Len(v) - 1)), v[Len(v)])

\* Vec::dedup: drops an element equal to the one before it
RECURSIVE dedup(_)
dedup(v) ==
    IF Len(v) < 2 THEN v
    ELSE IF v[Len(v)] = v[Len(v) - 1] THEN dedup(SubSeq(v, 1, Len(v) - 1))
    ELSE Append(dedup(SubSeq(v, 1, Len(v) - 1)), v[Len(v)])

\* Vec::retain(|name| name != own)
RECURSIVE retain_other(_, _)
retain_other(v, own) ==
    IF v = <<>> THEN <<>>
    ELSE IF Head(v) # own THEN <<Head(v)>> \o retain_other(Tail(v), own)
    ELSE retain_other(Tail(v), own)

\* an entry pushed with its aliases sorted, the repeated ones kept
baked_without_dedup(s) ==
    [s EXCEPT !.data.metadata.aliases =
                 retain_other(sort(s.data.metadata.aliases), s.name)]

\* the entry bake_for_config pushes for s
baked(s) ==
    [s EXCEPT !.data.metadata.aliases =
                 retain_other(dedup(sort(s.data.metadata.aliases)), s.name)]

\* inserts x behind every element whose key is not greater: a stable sort
RECURSIVE InsertByKey(_, _)
InsertByKey(sorted, x) ==
    IF sorted = <<>> THEN <<x>>
    ELSE IF KeyLess(make_prefix(x.name)[1], make_prefix(Head(sorted).name)[1])
    THEN <<x>> \o sorted
    ELSE <<Head(sorted)>> \o InsertByKey(Tail(sorted), x)

\* an order of the entries that is not sorted at all
unsorted(all) == all

\* all.sort_by_key(|s| make_prefix(&s.name))
RECURSIVE sort_by_key(_)
sort_by_key(all) ==
    IF all = <<>> THEN <<>>
    ELSE InsertByKey(sort_by_key(SubSeq(all, 1, Len(all) - 1)), all[Len(all)])

\* the orders in which by_name.values() can iterate
Orderings(S) ==
    {o \in [1..Cardinality(S) -> S] : \A i, j \in DOMAIN o : i # j => o[i] # o[j]}

\* bake_for_config over the registry, by_name iterated in the given order:
\* the two files afterwards and whether the function returned.
\* sort_by_key computes no key of a list shorter than two; the changelog
\* loop computes the prefix of every nightly entry, after the listing is
\* written and before data.json is.
bake_for_config(registry, order, files) ==
    LET all == [i \in DOMAIN order |-> baked(registry[order[i]])]
        noPrefix(s) == make_prefix(s.name) = None
        isNightly(s) == s.data.metadata.wezterm_version = NightlyVersion
    IN  IF Len(all) >= 2 /\ \E i \in DOMAIN all : noPrefix(all[i])
        THEN [pc |-> "panicked", codeFile |-> files.codeFile,
              dataFile |-> files.dataFile]
        ELSE LET sorted == IF Len(all) >= 2 THEN sort_by_key(all) ELSE all
                 code == [i \in DOMAIN sorted |-> <<sorted[i].name, to_toml(sorted[i])>>]
                 json == [i \in DOMAIN sorted |-> to_json_value(sorted[i])]
             IN  IF \E i \in DOMAIN sorted : isNightly(sorted[i]) /\ noPrefix(sorted[i])
                 THEN [pc |-> "panicked", codeFile |-> Some(code),
                       dataFile |-> files.dataFile]
                 ELSE [pc |-> "done", codeFile |-> Some(code),
                       dataFile |-> Some(json)]

(***************************************************************************)
(* The inputs of the model.                                                *)
(***************************************************************************)
N_1  == <<49>>          \* "1"
N_Ap == <<65, 112>>     \* "Ap"
N_ap == <<97, 112>>     \* "ap"
N_us == <<95, 115>>     \* "_s"
N_u  == <<95>>          \* "_"

Names == {N_1, N_Ap, N_ap, N_us, N_u}

P1 == [ansi |-> Some("dark"), foreground |-> "white"]
P2 == [ansi |-> Some("light"), foreground |-> "black"]
P3 == [ansi |-> None, foreground |-> "white"]       \* no ansi palette

Palettes == {P1, P2, P3}

V1 == "20230101"
V2 == "20240203"

\* What a source can deliver: the schemes of a TOML archive carry the nightly
\* version; the other sources also deliver unversioned schemes that declare
\* aliases.
Candidates ==
    {MkScheme(n, p, <<>>, NightlyVersion, None) : n \in Names, p \in Palettes}
    \cup {MkScheme(N_1, P1, <<N_us, N_Ap>>, None, None),
          MkScheme(N_u, P2, <<N_ap>>, None, None),
          MkScheme(N_Ap, P3, <<N_u>>, None, None)}

\* The records of a published dataset.
PriorRecords ==
    {to_json_value(MkScheme(N_Ap, p, <<N_1>>, Some(V1), None)) : p \in Palettes}
    \cup {to_json_value(MkScheme(N_us, p, <<>>, Some(V2), None)) : p \in Palettes}
    \cup {to_json_value(MkScheme(N_ap, p, <<>>, None, None)) : p \in Palettes}

\* A published dataset was written by bake_for_config: its records are in
\* the order of their keys, no two have the same name or the same colors.
PriorDatasets ==
    {d \in UNION {[1..n -> PriorRecords] : n \in 0..MaxPrior} :
        /\ \A i, j \in DOMAIN d :
              i # j => /\ d[i].metadata.name # d[j].metadata.name
                       /\ d[i].colors # d[j].colors
        /\ \A i \in DOMAIN d : i < Len(d) =>
              KeyLeq(make_prefix(d[i].metadata.name[1])[1],
                     make_prefix(d[i + 1].metadata.name[1])[1])}

PriorFiles == {None} \cup {Some(d) : d \in PriorDatasets}

\* The sources main syncs, in the order of main: the TOML archives of ten
\* repositories, then the four sources whose schemes main hands to
\* accumulate.
Github(path) == [host |-> "github.com", path |-> path]

TomlSource(repo_url, branch) ==
    [kind |-> "toml", repo_url |-> repo_url, branch |-> branch, suffix |-> <<>>]

OtherSource(module, function) ==
    [kind |-> "accumulate", repo_url |-> [host |-> module, path |-> function],
     branch |-> "", suffix |-> <<>>]

Sources ==
    <<TomlSource(Github("catppuccin/wezterm"), "main"),
      TomlSource(Github("EdenEast/nightfox.nvim"), "main"),
      TomlSource(Github("Hiroya-W/wezterm-sequoia-theme"), "main"),
      TomlSource(Github("dracula/wezterm"), "main"),
      TomlSource(Github("olivercederborg/poimandres.nvim"), "main"),
      TomlSource(Github("folke/tokyonight.nvim"), "main"),
      TomlSource([host |-> "codeberg.org", path |-> "anhsirk0/wezterm-themes"], "main"),
      TomlSource(Github("hardhackerlabs/theme-wezterm"), "master"),
      TomlSource(Github("ribru17/bamboo.nvim"), "master"),
      TomlSource(Github("eldritch-theme/wezterm"), "master"),
      OtherSource("iterm2", "sync_iterm2"),
      OtherSource("base16", "sync"),
      OtherSource("gogh", "sync_gogh"),
      OtherSource("sexy", "sync_sexy")>>

\* the sources whose archives and lists the model fills: the first archive,
\* the archive of codeberg.org, and iterm2
Catppuccin == 1
Anhsirk0 == 7
Iterm2 == 11

\* the URL sync_toml fetches
tarball_url(repo_url, branch) ==
    IF repo_url.host = "codeberg.org"
    THEN <<repo_url, "/archive/", branch, ".tar.gz">>
    ELSE <<repo_url, "/tarball/", branch>>

SourceUrl(i) == tarball_url(Sources[i].repo_url, Sources[i].branch)

Urls == {SourceUrl(i) : i \in DOMAIN Sources}

\* Cache-Control values
H_MaxAge1    == MaxAge \o <<"=", "1">>
H_MaxAge2    == MaxAge \o <<"=", "2">>
H_PublicAge1 == <<"p", "u", "b", "l", "i", "c", ",", " ">> \o MaxAge \o <<"=", "1">>
H_Age1Public == MaxAge \o <<"=", "1", ",", "p", "u", "b", "l", "i", "c">>
H_NoCache    == <<"n", "o", "-", "c", "a", "c", "h", "e">>
H_MaxAgeX    == MaxAge \o <<"=", "x">>
H_Opaque     == MaxAge \o <<"=", "1", "<80>">>

Headers ==
    {None, Some(H_MaxAge1), Some(H_MaxAge2), Some(H_PublicAge1), Some(H_Age1Public),
     Some(H_NoCache), Some(H_MaxAgeX), Some(H_Opaque)}

NotFound == 404
NoContent == 204

\* response bodies that are no archive: "hi" and one byte that is not UTF-8
PlainBodies ==
    {[bytes |-> <<104, 105>>, content |-> None], [bytes |-> <<255>>, content |-> None]}

\* no answer: what the network has said when the cache is looked up
NoAnswer == [kind |-> "none"]

\* the request fails, or the transfer of the body does
TransportFailures ==
    {[kind |-> "send_error"]}
    \cup [kind : {"body_error"}, status : {StatusOk}, cache_control : {None}]

HttpResponses(statuses, headers, bodies) ==
    [kind : {"http"}, status : statuses, cache_control : headers, body : bodies]

FetchResponses ==
    TransportFailures
    \cup HttpResponses({StatusOk}, Headers, PlainBodies)
    \cup HttpResponses({NotFound, NoContent}, {None, Some(H_MaxAge1)}, PlainBodies)

\* the URLs fetch_url is called with on its own
FetchUrls == {SourceUrl(Catppuccin), SourceUrl(Anhsirk0)}

\* what the network answers for each of them: a few answers for the first,
\* every answer for the other
FetchResponsesOf(url) ==
    IF url = SourceUrl(Anhsirk0) THEN FetchResponses
    ELSE {r \in FetchResponses :
             r.kind = "http" =>
                 /\ r.cache_control = None
                 /\ r.status \in {StatusOk, NotFound}
                 /\ r.body.bytes = <<104, 105>>}

\* the tasks of the executor: main, and one beside it
Main == "main"
Tasks == {Main, "other"}

\* main calls fetch_url with both URLs, the task beside it with the first
FetchUrlsOf(task) == IF task = Main THEN FetchUrls ELSE {SourceUrl(Catppuccin)}

(***************************************************************************)
(* The state machine.                                                      *)
(***************************************************************************)
MaxTime == DefaultTtlSecs + MaxTick

\* calls: the candidates passed to add() in this run; last: the last add();
\* synced: the last sync_toml; requests: the network requests of this run;
\* allLive: every fetch_url of this run found a live cache entry;
\* fetchFailed: a fetch_url of this run returned an error; start: the files
\* when the run started; prev: what the previous run delivered and wrote.
NoTrace == [calls |-> <<>>, last |-> None, synced |-> None, requests |-> 0,
            allLive |-> TRUE, fetchFailed |-> FALSE, start |-> None, prev |-> None]

InitFetch ==
    /\ now = 0
    /\ cache = [u \in Urls |-> None]
    /\ fetched = None
    /\ lastNet = [u \in Urls |-> None]
    /\ calls = [task \in Tasks |-> Idle]

InitRegistry ==
    /\ by_name = EmptyMap
    /\ version_by_color_scheme = EmptyMap
    /\ version_by_name = EmptyMap
    /\ trace = NoTrace

\* the clock advances by d seconds
Tick(d) ==
    /\ now + d <= MaxTime
    /\ (now + d) % DefaultTtlSecs <= MaxTick
    /\ now' = now + d
    /\ UNCHANGED <<cache, fetched, lastNet, calls, dataFile, codeFile, pc, source, run,
                   by_name, version_by_color_scheme, version_by_name, trace>>

\* a task that awaits nothing calls fetch_url(url) and is suspended in
\* get_for_update(url).await
Fetch(task, url) ==
    /\ calls[task].stage \in {"idle", "returned"}
    /\ calls' = [calls EXCEPT ![task] = Called(url, FALSE)]
    /\ fetched' = None
    /\ UNCHANGED <<now, cache, lastNet, dataFile, codeFile, pc, source, run,
                   by_name, version_by_color_scheme, version_by_name, trace>>

\* a task that awaits nothing calls fetch_url_as_str(url), which calls
\* fetch_url(url)
FetchAsStr(task, url) ==
    /\ calls[task].stage \in {"idle", "returned"}
    /\ calls' = [calls EXCEPT ![task] = Called(url, TRUE)]
    /\ fetched' = None
    /\ UNCHANGED <<now, cache, lastNet, dataFile, codeFile, pc, source, run,
                   by_name, version_by_color_scheme, version_by_name, trace>>

\* The executor resumes the call of a task, which runs to its next await or
\* returns; resp is what the network has answered.  A call that returns is
\* recorded in fetched: when it returned (done), the answer it had, the
\* result of fetch_url and of fetch_url_as_str, the last network fetch of
\* the URL before this step (prior), and whether this step left the cache as
\* it was (kept).
FetchStep(task, resp) ==
    LET call == calls[task]
        inner == fetch_url(cache, now, call, resp)
        out == IF call.as_str THEN fetch_url_as_str(cache, now, call, resp) ELSE inner
        looked == call.stage = "get_for_update"
        found == IF looked THEN cache[call.url] ELSE call.found
        returned == out.call.stage = "returned"
    IN  /\ cache' = out.cache
        /\ calls' = [calls EXCEPT ![task] =
                        IF returned THEN out.call
                        ELSE [out.call EXCEPT !.found = found]]
        /\ fetched' = IF returned
                      THEN Some([url |-> call.url, done |-> now,
                                 resp |-> IF looked THEN None ELSE Some(resp),
                                 requested |-> out.call.requested,
                                 result |-> inner.call.result[1],
                                 as_str |-> IF call.as_str THEN out.call.result
                                            ELSE None,
                                 kept |-> out.cache = cache,
                                 prior |-> lastNet[call.url], found |-> found])
                      ELSE fetched
        /\ lastNet' = IF call.stage = "bytes" /\ returned /\ inner.call.result[1].ok
                      THEN [lastNet EXCEPT ![call.url] =
                               Some([t |-> now, d |-> call.ttl, data |-> resp.body])]
                      ELSE lastNet
        /\ UNCHANGED <<now, dataFile, codeFile, pc, source, run,
                       by_name, version_by_color_scheme, version_by_name, trace>>

\* get_for_update(url).await is done (line 46): the call goes on to its
\* return or to send().await
Lookup(task) ==
    /\ calls[task].stage = "get_for_update"
    /\ FetchStep(task, NoAnswer)

\* send().await is done (line 60): the status and the headers have arrived,
\* or the request has failed; the call goes on to bytes().await or returns
Sent(task, answers) ==
    /\ calls[task].stage = "send"
    /\ \E resp \in answers[calls[task].url] : FetchStep(task, resp)

\* bytes().await is done (line 76): the body of the response whose status
\* and headers the call holds has arrived, or its transfer has failed; the
\* call goes on to its return
Received(task, answers) ==
    /\ calls[task].stage = "bytes"
    /\ \E resp \in answers[calls[task].url] :
          /\ resp.kind \in {"http", "body_error"}
          /\ resp.status = calls[task].status
          /\ resp.cache_control = calls[task].header
          /\ FetchStep(task, resp)

\* main: let mut schemeses = SchemeSet::load_existing()?
LoadExisting ==
    /\ pc = "load"
    /\ LET reg == load_existing(dataFile)
       IN  /\ by_name' = reg.by_name
           /\ version_by_color_scheme' = reg.version_by_color_scheme
           /\ version_by_name' = reg.version_by_name
    /\ pc' = "sync"
    /\ source' = 1
    /\ trace' = [trace EXCEPT !.start = Some([dataFile |-> dataFile, codeFile |-> codeFile])]
    /\ UNCHANGED <<now, cache, fetched, lastNet, calls, dataFile, codeFile, run>>

Registry ==
    [by_name |-> by_name, version_by_color_scheme |-> version_by_color_scheme,
     version_by_name |-> version_by_name]

\* an add that also enters the name of the candidate in the name index
Add_indexing_the_name(candidate) ==
    /\ pc = "sync"
    /\ Len(trace.calls) < MaxAdds
    /\ \E after \in add(Registry, candidate) :
          /\ by_name' = after
          /\ trace' = [trace EXCEPT !.calls = Append(@, candidate),
                                    !.last = Some([candidate |-> candidate,
                                                   before |-> by_name])]
    /\ version_by_name' =
          [k \in DOMAIN version_by_name \cup {candidate.name} |->
              IF k \in DOMAIN version_by_name THEN version_by_name[k]
              ELSE NightlyVersion[1]]
    /\ UNCHANGED <<now, cache, fetched, lastNet, calls, dataFile, codeFile, pc, source, run,
                   version_by_color_scheme>>

\* schemeses.add(candidate)
Add(candidate) ==
    /\ pc = "sync"
    /\ Len(trace.calls) < MaxAdds
    /\ \E after \in add(Registry, candidate) :
          /\ by_name' = after
          /\ trace' = [trace EXCEPT !.calls = Append(@, candidate),
                                    !.last = Some([candidate |-> candidate,
                                                   before |-> by_name])]
    /\ UNCHANGED <<now, cache, fetched, lastNet, calls, dataFile, codeFile, pc, source, run,
                   version_by_color_scheme, version_by_name>>

\* bake_for_config(schemeses)
Bake ==
    /\ pc = "sync"
    /\ \E order \in Orderings(DOMAIN by_name) :
          LET out == bake_for_config(by_name, order,
                                     [codeFile |-> codeFile, dataFile |-> dataFile])
          IN  /\ pc' = out.pc
              /\ codeFile' = out.codeFile
              /\ dataFile' = out.dataFile
    /\ UNCHANGED <<now, cache, fetched, lastNet, calls, source, run,
                   by_name, version_by_color_scheme, version_by_name, trace>>

\* The fetch layer on its own: the two tasks call fetch_url and
\* fetch_url_as_str, one beside the other, as time passes.
InitFetchLayer ==
    /\ InitFetch
    /\ InitRegistry
    /\ dataFile = None
    /\ codeFile = None
    /\ pc = "idle"
    /\ source = 1
    /\ run = 1

FetchAnswers == [url \in Urls |-> FetchResponsesOf(url)]

NextFetch ==
    \/ \E d \in {1, DefaultTtlSecs} : Tick(d)
    \/ \E task \in Tasks : \E url \in FetchUrlsOf(task) : Fetch(task, url)
    \/ \E url \in FetchUrls : FetchAsStr(Main, url)
    \/ \E task \in Tasks : Lookup(task)
    \/ \E task \in Tasks : Sent(task, FetchAnswers)
    \/ \E task \in Tasks : Received(task, FetchAnswers)

SpecFetch == InitFetchLayer /\ [][NextFetch]_vars

\* The registry on its own: a published dataset is loaded, candidates are
\* added in any order, and the registry is baked.
InitRegistrySession ==
    /\ InitFetch
    /\ InitRegistry
    /\ dataFile \in PriorFiles
    /\ codeFile = None
    /\ pc = "load"
    /\ source = 1
    /\ run = 1

NextRegistry ==
    \/ LoadExisting
    \/ \E candidate \in Candidates : Add(candidate)
    \/ Bake

SpecRegistry == InitRegistrySession /\ [][NextRegistry]_vars

(***************************************************************************)
(* Properties of the fetch layer.                                          *)
(***************************************************************************)
\* C5 (TTL respect): after a successful network fetch of a URL at time t with
\* resolved TTL d, a fetch_url that looks the URL up before t + d returns the
\* cached bytes and issues no network request, and one that looks it up
\* after t + d issues a network request.  t is the time the fetch writes the
\* entry (line 82), after the request and the body have been awaited; the
\* property is stated for a call that is resumed from get_for_update().await
\* in the state at hand, whatever calls are in flight.
C5_TtlRespect ==
    \A url \in Urls :
        lastNet[url] # None =>
            LET p == lastNet[url][1]
                out == fetch_url(cache, now, Called(url, FALSE), NoAnswer)
            IN  /\ now < p.t + p.d =>
                      /\ out.call.stage = "returned"
                      /\ ~out.call.requested
                      /\ out.call.result = Some(Ok(p.data))
                      /\ out.cache = cache
                /\ now > p.t + p.d =>
                      /\ out.call.stage = "send"
                      /\ out.call.requested
                      /\ out.cache = cache

\* a call that returned within the TTL of max-age=2, one second after the
\* network fetch, served from the cache
C5_Witness ==
    /\ fetched # None
    /\ fetched[1].prior # None
    /\ fetched[1].prior[1].d = 2
    /\ fetched[1].done = fetched[1].prior[1].t + 1
    /\ ~fetched[1].requested
    /\ fetched[1].result = Ok(fetched[1].prior[1].data)

\* The TTL the specification gives a Cache-Control value: the N of a
\* max-age=N directive among the comma separated directives of the value.
RECURSIVE SplitComma(_)
SplitComma(value) ==
    LET commas == {i \in DOMAIN value : value[i] = ","}
    IN  IF commas = {} THEN <<value>>
        ELSE <<SubSeq(value, 1, Min(commas) - 1)>>
                 \o SplitComma(SubSeq(value, Min(commas) + 1, Len(value)))

RECURSIVE TrimSpaces(_)
TrimSpaces(tok) ==
    IF tok # <<>> /\ Head(tok) = " " THEN TrimSpaces(Tail(tok))
    ELSE IF tok # <<>> /\ tok[Len(tok)] = " " THEN TrimSpaces(SubSeq(tok, 1, Len(tok) - 1))
    ELSE tok

IsMaxAgeDirective(tok) ==
    /\ Len(tok) > Len(MaxAge) + 1
    /\ SubSeq(tok, 1, Len(MaxAge)) = MaxAge
    /\ tok[Len(MaxAge) + 1] = "="
    /\ \A i \in (Len(MaxAge) + 2)..Len(tok) : tok[i] \in Digits

SpecifiedTtl(resp) ==
    IF resp.cache_control = None THEN DefaultTtlSecs
    ELSE LET directives == SplitComma(resp.cache_control[1])
             hits == {i \in DOMAIN directives : IsMaxAgeDirective(TrimSpaces(directives[i]))}
         IN  IF hits = {} THEN DefaultTtlSecs
             ELSE DecimalValue(SubSeq(TrimSpaces(directives[Min(hits)]),
                                      Len(MaxAge) + 2,
                                      Len(TrimSpaces(directives[Min(hits)]))))

\* C6 (TTL resolution): the TTL written to the cache is N whenever the
\* Cache-Control value contains a max-age=N directive with numeric N, other
\* directives or not, and 86400 seconds in every other case.
C6_TtlResolution ==
    fetched # None /\ fetched[1].requested /\ fetched[1].result.ok =>
        cache[fetched[1].url][1].expires
            = fetched[1].done + SpecifiedTtl(fetched[1].resp[1])

\* C7 as stated (failures are never cached): when fetch_url ends in an
\* error, transport failure or non-success status, the error's detail is
\* the response body, the cache is unchanged and the next fetch_url of the
\* URL misses the cache and issues a network request.
C7_DetailIsBodyOfEveryFailure ==
    fetched # None /\ ~fetched[1].result.ok =>
        /\ fetched[1].resp[1].kind = "http"
        /\ fetched[1].result.value = fetched[1].resp[1].body.bytes
        /\ fetched[1].kept
        /\ fetch_url(cache, now, Called(fetched[1].url, FALSE), NoAnswer).call.stage
              = "send"

\* C7, amended: when fetch_url ends in an error it writes nothing to the
\* cache, and while the entry of the URL is the one the call found (no call
\* that ran beside it has stored a response) the next fetch_url of the URL
\* misses the cache and issues a network request; the error's detail is the
\* response body, decoded lossily as UTF-8, when the status is not 200, and
\* is the transport error when the request or the transfer of the body
\* failed.
C7_FailuresNotCached ==
    fetched # None /\ ~fetched[1].result.ok =>
        LET f == fetched[1]
        IN  /\ f.kept
            /\ f.requested
            /\ cache[f.url] = f.found =>
                  /\ get_for_update(cache, f.url, now) = None
                  /\ fetch_url(cache, now, Called(f.url, FALSE), NoAnswer).call.stage
                        = "send"
            /\ f.resp[1].kind = "http" =>
                  /\ f.resp[1].status # StatusOk
                  /\ f.result.value = from_utf8_lossy(f.resp[1].body.bytes)
            /\ f.resp[1].kind # "http" =>
                  f.result.value \in {<<"fetching", f.url>>, <<"reqwest">>}

\* a 404 whose body is not UTF-8, a second after it was received, the entry
\* of the URL still as the call found it
C7_Witness ==
    /\ fetched # None
    /\ ~fetched[1].result.ok
    /\ fetched[1].resp[1].kind = "http"
    /\ fetched[1].resp[1].status = NotFound
    /\ fetched[1].resp[1].body.bytes = <<255>>
    /\ cache[fetched[1].url] = fetched[1].found
    /\ now = fetched[1].done + 1

(***************************************************************************)
(* Properties of the registry.                                             *)
(***************************************************************************)
Aliases(s) == s.data.metadata.aliases
Version(s) == s.data.metadata.wezterm_version

\* the entries of registry r whose colors are those of candidate c
SameColors(r, c) == {n \in DOMAIN r : r[n].data.colors = c.data.colors}

\* C2 as stated (alias transitivity): if candidate A has been added and a
\* later add() receives B with A's palette and another name, then after that
\* add() B's name is in the alias list of the entry that stands for A and
\* by_name has no entry keyed by B's name.
C2_AliasOfEveryEarlierCandidate ==
    trace.last # None =>
        LET B == trace.last[1].candidate
        IN  \A i \in 1..(Len(trace.calls) - 1) :
                LET A == trace.calls[i]
                IN  A.data.colors = B.data.colors /\ A.name # B.name =>
                        /\ \E n \in SameColors(by_name, A) : B.name \in Range(Aliases(by_name[n]))
                        /\ B.name \notin DOMAIN by_name

\* C2, amended: if add() receives a candidate B whose palette is that of an
\* entry E of by_name, then after that add() B's name is appended to E's
\* alias list and nothing else changes: by_name has the keys it had.
C2_AliasOfMatchingEntry ==
    trace.last # None =>
        LET B == trace.last[1].candidate
            before == trace.last[1].before
        IN  SameColors(before, B) # {} =>
                /\ DOMAIN by_name = DOMAIN before
                /\ \E n \in SameColors(before, B) :
                      /\ by_name[n] = [before[n] EXCEPT !.data.metadata.aliases =
                                                           Append(@, B.name)]
                      /\ \A k \in DOMAIN before \ {n} : by_name[k] = before[k]

\* B arrives with the palette of the earlier candidate A under another name,
\* and is listed as an alias of A's entry
C2_Witness ==
    /\ trace.last # None
    /\ pc = "sync"
    /\ \E i \in 1..(Len(trace.calls) - 1) :
          LET A == trace.calls[i]
              B == trace.last[1].candidate
          IN  /\ A.data.colors = B.data.colors
              /\ A.name # B.name
              /\ A.name \in DOMAIN by_name
              /\ B.name \notin DOMAIN by_name
              /\ Aliases(by_name[A.name]) = <<B.name>>

\* C3 as stated (name-collision carry-forward): if by_name holds an entry
\* named N with alias list L and add() receives a candidate named N whose
\* palette differs from N's, then afterwards the entry under N has the
\* candidate's palette and the alias list L.
C3_CarryForwardWhenPaletteDiffersFromN ==
    trace.last # None =>
        LET B == trace.last[1].candidate
            before == trace.last[1].before
        IN  B.name \in DOMAIN before /\ B.data.colors # before[B.name].data.colors =>
                /\ by_name[B.name].data.colors = B.data.colors
                /\ Aliases(by_name[B.name]) = Aliases(before[B.name])

\* C3, amended: if by_name holds an entry named N with alias list L and
\* add() receives a candidate named N whose palette is that of no entry of
\* by_name, then afterwards the entry under N has the candidate's palette
\* and the alias list L, whatever aliases the candidate declared.
C3_CarryForwardWhenNoEntryMatches ==
    trace.last # None =>
        LET B == trace.last[1].candidate
            before == trace.last[1].before
        IN  B.name \in DOMAIN before /\ SameColors(before, B) = {} =>
                /\ by_name[B.name].data.colors = B.data.colors
                /\ Aliases(by_name[B.name]) = Aliases(before[B.name])

\* an entry with a non-empty alias list is superseded by a candidate that
\* declares other aliases
C3_Witness ==
    /\ trace.last # None
    /\ pc = "sync"
    /\ LET B == trace.last[1].candidate
           before == trace.last[1].before
       IN  /\ B.name \in DOMAIN before
           /\ SameColors(before, B) = {}
           /\ Aliases(before[B.name]) # <<>>
           /\ Aliases(B) # <<>>
           /\ Aliases(B) # Aliases(before[B.name])
           /\ by_name[B.name].data.colors = B.data.colors

\* C4 (version permanence): if the prior dataset records palette P with
\* version V, then after load_existing and any sequence of add() calls every
\* entry of by_name whose palette is P carries version V, whatever name the
\* candidate that carried P arrived under.
C4_VersionPermanence ==
    pc = "sync" =>
        \A i \in DOMAIN Records(dataFile) :
            LET rec == Records(dataFile)[i]
            IN  rec.metadata.wezterm_version # None =>
                    \A n \in DOMAIN by_name :
                        by_name[n].data.colors = rec.colors =>
                            Version(by_name[n]) = rec.metadata.wezterm_version

\* the palette of a versioned prior record, once superseded under its own
\* name, arrives under another name and is entered with the record's version
C4_Witness ==
    /\ pc = "sync"
    /\ trace.last # None
    /\ \E i \in DOMAIN Records(dataFile) :
          LET rec == Records(dataFile)[i]
              B == trace.last[1].candidate
          IN  /\ rec.metadata.wezterm_version = Some(V1)
              /\ B.data.colors = rec.colors
              /\ B.name # rec.metadata.name[1]
              /\ B.name \in DOMAIN by_name
              /\ B.name \notin DOMAIN trace.last[1].before
              /\ by_name[B.name].data.colors = rec.colors
              /\ Version(by_name[B.name]) = Some(V1)

\* The key the emitted list is ordered by: the first letter or digit of the
\* name, case-folded, then the case-folded name.
Fold(c) == IF c \in 65..90 THEN c + 32 ELSE c
IsAlnum(c) == c \in (48..57) \cup (65..90) \cup (97..122)
SortKey(name) ==
    LET first == CHOOSE i \in DOMAIN name :
                    IsAlnum(name[i]) /\ \A j \in 1..(i - 1) : ~IsAlnum(name[j])
    IN  <<Fold(name[first]), [i \in DOMAIN name |-> Fold(name[i])]>>

\* C10 (sort order): the emitted list is ordered by the key, every two
\* adjacent entries in order, and holds exactly the entries of by_name, each
\* once.
C10_SortOrder ==
    pc = "done" =>
        LET out == dataFile[1]
        IN  /\ \A i \in 1..(Len(out) - 1) :
                  LET k1 == SortKey(out[i].metadata.name[1])
                      k2 == SortKey(out[i + 1].metadata.name[1])
                  IN  k1[1] < k2[1] \/ (k1[1] = k2[1] /\ StrLeq(k1[2], k2[2]))
            /\ Len(out) = Cardinality(DOMAIN by_name)
            /\ \A n \in DOMAIN by_name :
                  \E i \in DOMAIN out :
                      /\ out[i].metadata.name = Some(n)
                      /\ out[i].colors = by_name[n].data.colors
                      /\ out[i].metadata.wezterm_version = Version(by_name[n])

\* "1", "Ap" and "_s" are emitted in this order: "_s" sorts under s
C10_Witness ==
    /\ pc = "done"
    /\ Len(dataFile[1]) = 3
    /\ dataFile[1][1].metadata.name = Some(N_1)
    /\ dataFile[1][2].metadata.name = Some(N_Ap)
    /\ dataFile[1][3].metadata.name = Some(N_us)

(***************************************************************************)
(* SchemeSet::sync_toml, SchemeSet::accumulate and main.                   *)
(***************************************************************************)
\* An entry of a tarball: a path and, for a file that could be read, what
\* ColorSchemeFile::from_toml_str makes of its text (None: a parse error).
\* readable is FALSE for an entry that tar, unpack or read_to_string fails on.
TomlDoc(stem, name, colors) ==
    [readable |-> TRUE, path |-> [stem |-> stem, ext |-> "toml"],
     parsed |-> Some([colors |-> colors,
                      metadata |-> [name |-> name, aliases |-> <<>>,
                                    origin_url |-> None, wezterm_version |-> None]])]

T_ApP1  == TomlDoc(N_Ap, None, P1)           \* Ap.toml, no name in the document
T_ApP2  == TomlDoc(N_1, Some(N_Ap), P2)      \* 1.toml, named "Ap"
T_usP1  == TomlDoc(N_1, Some(N_us), P1)      \* 1.toml, named "_s"
T_Bad   == [readable |-> TRUE, path |-> [stem |-> N_ap, ext |-> "toml"], parsed |-> None]
T_Other == [readable |-> TRUE, path |-> [stem |-> N_ap, ext |-> "md"], parsed |-> None]
T_Corrupt == [readable |-> FALSE, path |-> [stem |-> N_ap, ext |-> "toml"], parsed |-> None]

SeqsUpTo(S, n) == UNION {[1..k -> S] : k \in 0..n}

\* the first bytes of a gzip stream
GzipBytes == <<31, 139>>

\* what each source serves: tarballs for sync_toml, a list of schemes for the
\* sources main hands to accumulate; the sources the model does not fill
\* serve nothing
SourceContents(i) ==
    IF i = Catppuccin THEN SeqsUpTo({T_ApP1, T_ApP2, T_Bad}, MaxDocs)
    ELSE IF i = Anhsirk0 THEN SeqsUpTo({T_usP1, T_Other, T_Corrupt}, MaxDocs)
    ELSE IF i = Iterm2
    THEN SeqsUpTo({MkScheme(N_1, P1, <<N_us, N_Ap>>, None, None),
                   MkScheme(N_u, P2, <<N_ap>>, None, None)}, MaxDocs)
    ELSE {<<>>}

SourceBodies(i) ==
    {[bytes |-> GzipBytes, content |-> Some(c)] : c \in SourceContents(i)}
    \cup {[bytes |-> <<104, 105>>, content |-> None]}

\* the first source also sets a max-age of one second
SourceResponses(i) ==
    TransportFailures
    \cup HttpResponses({StatusOk},
                       IF i = Catppuccin THEN {None, Some(H_MaxAge1)} ELSE {None},
                       SourceBodies(i))
    \cup HttpResponses({NotFound}, {None}, {[bytes |-> <<104, 105>>, content |-> None]})

\* the scheme sync_toml makes of a parsed document
toml_candidate(src, entry) ==
    LET scheme == entry.parsed[1]
        name == (IF scheme.metadata.name # None THEN scheme.metadata.name[1]
                 ELSE entry.path.stem) \o src.suffix
        named == [scheme EXCEPT !.metadata.name = Some(name),
                                !.metadata.origin_url =
                                    IF @ = None THEN Some(src.repo_url) ELSE @]
    IN  [name |-> name, file_name |-> None,
         data |-> [named EXCEPT !.metadata = apply_nightly_version(@)]]

\* a sync_toml that gives up at the first document that fails to parse
RECURSIVE sync_entries_until_parse_error(_, _, _)
sync_entries_until_parse_error(st, src, entries) ==
    IF entries = <<>> THEN {[st EXCEPT !.ok = TRUE]}
    ELSE LET entry == Head(entries)
         IN  IF ~entry.readable THEN {[st EXCEPT !.ok = FALSE]}
             ELSE IF entry.path.ext # "toml"
             THEN sync_entries_until_parse_error(st, src, Tail(entries))
             ELSE IF entry.parsed = None
             THEN {[st EXCEPT !.logged = Append(@, entry.path), !.ok = FALSE]}
             ELSE LET candidate == toml_candidate(src, entry)
                  IN  UNION {sync_entries_until_parse_error(
                                 [st EXCEPT !.by_name = after,
                                            !.calls = Append(@, candidate)],
                                 src, Tail(entries)) :
                                after \in add([st EXCEPT !.ok = FALSE], candidate)}

\* the loop of sync_toml over the entries of the tarball, from state st
RECURSIVE sync_entries(_, _, _)
sync_entries(st, src, entries) ==
    IF entries = <<>> THEN {[st EXCEPT !.ok = TRUE]}
    ELSE LET entry == Head(entries)
         IN  IF ~entry.readable THEN {[st EXCEPT !.ok = FALSE]}
             ELSE IF entry.path.ext # "toml" THEN sync_entries(st, src, Tail(entries))
             ELSE IF entry.parsed = None
             THEN sync_entries([st EXCEPT !.logged = Append(@, entry.path)],
                               src, Tail(entries))
             ELSE LET candidate == toml_candidate(src, entry)
                  IN  UNION {sync_entries([st EXCEPT !.by_name = after,
                                                     !.calls = Append(@, candidate)],
                                          src, Tail(entries)) :
                                after \in add([st EXCEPT !.ok = FALSE], candidate)}

SyncState(reg) ==
    [by_name |-> reg.by_name, version_by_color_scheme |-> reg.version_by_color_scheme,
     version_by_name |-> reg.version_by_name, calls |-> <<>>, logged |-> <<>>,
     ok |-> FALSE]

\* a sync_toml that reads a failed fetch as an empty tarball
sync_toml_ignoring_fetch_error(reg, src, fetchResult) ==
    IF ~fetchResult.ok THEN {[SyncState(reg) EXCEPT !.ok = TRUE]}
    ELSE IF fetchResult.value.content = None THEN {SyncState(reg)}
    ELSE sync_entries(SyncState(reg), src, fetchResult.value.content[1])

\* sync_toml(repo_url, branch, suffix), given what fetch_url returned: the
\* registries it can leave, the candidates it passed to add(), the paths it
\* logged, and whether it returned Ok.
sync_toml(reg, src, fetchResult) ==
    IF ~fetchResult.ok THEN {SyncState(reg)}
    ELSE IF fetchResult.value.content = None THEN {SyncState(reg)}
    ELSE sync_entries(SyncState(reg), src, fetchResult.value.content[1])

\* accumulate(to_add), from state st
RECURSIVE accumulate(_, _)
accumulate(st, to_add) ==
    IF to_add = <<>> THEN {[st EXCEPT !.ok = TRUE]}
    ELSE UNION {accumulate([st EXCEPT !.by_name = after,
                                      !.calls = Append(@, Head(to_add))],
                           Tail(to_add)) :
                   after \in add([st EXCEPT !.ok = FALSE], Head(to_add))}

\* iterm2::sync_iterm2 and the like: the schemes of the fetched document
sync_other(fetchResult) ==
    IF ~fetchResult.ok \/ fetchResult.value.content = None
    THEN Err(<<"sync">>)
    ELSE Ok(fetchResult.value.content[1])

\* what the fetch_url that main awaited leaves in the history of the run
Fetching(call) ==
    [trace EXCEPT !.requests = IF call.requested THEN @ + 1 ELSE @,
                  !.allLive = @ /\ ~call.requested,
                  !.fetchFailed = @ \/ ~call.result[1].ok]

\* main: schemeses.sync_toml(repo_url, branch, suffix) is called and runs to
\* fetch_url(&tarball_url).await (lines 317-322): main is suspended in the
\* get_for_update().await of that call
CallSyncToml ==
    /\ pc = "sync"
    /\ source \in DOMAIN Sources
    /\ Sources[source].kind = "toml"
    /\ calls[Main].stage = "idle"
    /\ calls' = [calls EXCEPT ![Main] = Called(SourceUrl(source), FALSE)]
    /\ fetched' = None
    /\ UNCHANGED <<now, cache, lastNet, dataFile, codeFile, pc, source, run,
                   by_name, version_by_color_scheme, version_by_name, trace>>

\* main: iterm2::sync_iterm2() (base16::sync(), ..) is called and runs to
\* the await of its fetch
CallSyncOther ==
    /\ pc = "sync"
    /\ source \in DOMAIN Sources
    /\ Sources[source].kind = "accumulate"
    /\ calls[Main].stage = "idle"
    /\ calls' = [calls EXCEPT ![Main] = Called(SourceUrl(source), FALSE)]
    /\ fetched' = None
    /\ UNCHANGED <<now, cache, lastNet, dataFile, codeFile, pc, source, run,
                   by_name, version_by_color_scheme, version_by_name, trace>>

\* main: sync_toml goes on when fetch_url has returned (lines 322-374), and
\* main with the next source or, at an error, to its end
SyncToml ==
    /\ pc = "sync"
    /\ source \in DOMAIN Sources
    /\ Sources[source].kind = "toml"
    /\ calls[Main].stage = "returned"
    /\ LET call == calls[Main]
           result == call.result[1]
       IN  \E st \in sync_toml(Registry, Sources[source], result) :
              /\ by_name' = st.by_name
              /\ pc' = IF st.ok THEN "sync" ELSE "failed"
              /\ source' = IF st.ok THEN source + 1 ELSE source
              /\ trace' = [Fetching(call) EXCEPT
                              !.calls = @ \o st.calls,
                              !.synced = Some([source |-> source,
                                               fetch |-> result,
                                               calls |-> st.calls,
                                               logged |-> st.logged,
                                               ok |-> st.ok,
                                               before |-> by_name])]
    /\ calls' = [calls EXCEPT ![Main] = Idle]
    /\ UNCHANGED <<now, cache, fetched, lastNet, dataFile, codeFile, run,
                   version_by_color_scheme, version_by_name>>

\* main: schemeses.accumulate(iterm2::sync_iterm2().await.context(..)?), when
\* the fetch of the source has returned
SyncAccumulate ==
    /\ pc = "sync"
    /\ source \in DOMAIN Sources
    /\ Sources[source].kind = "accumulate"
    /\ calls[Main].stage = "returned"
    /\ LET call == calls[Main]
           to_add == sync_other(call.result[1])
       IN  IF to_add.ok
           THEN \E st \in accumulate(SyncState(Registry), to_add.value) :
                   /\ by_name' = st.by_name
                   /\ pc' = "sync"
                   /\ source' = source + 1
                   /\ trace' = [Fetching(call) EXCEPT !.calls = @ \o st.calls]
           ELSE /\ pc' = "failed"
                /\ trace' = Fetching(call)
                /\ UNCHANGED <<by_name, source>>
    /\ calls' = [calls EXCEPT ![Main] = Idle]
    /\ UNCHANGED <<now, cache, fetched, lastNet, dataFile, codeFile, run,
                   version_by_color_scheme, version_by_name>>

\* main: bake_for_config(schemeses)?, after the last source
MainBake ==
    /\ source = Len(Sources) + 1
    /\ Bake

InitMain ==
    /\ InitFetch
    /\ InitRegistry
    /\ dataFile = None
    /\ codeFile = None
    /\ pc = "load"
    /\ source = 1
    /\ run = 1

\* the source a URL is the URL of
SourceOf(url) == CHOOSE i \in DOMAIN Sources : SourceUrl(i) = url

SourceAnswers == [url \in Urls |-> SourceResponses(SourceOf(url))]

NextMain ==
    \/ Tick(1)
    \/ LoadExisting
    \/ CallSyncToml
    \/ CallSyncOther
    \/ Lookup(Main)
    \/ Sent(Main, SourceAnswers)
    \/ Received(Main, SourceAnswers)
    \/ SyncToml
    \/ SyncAccumulate
    \/ MainBake

\* A run of the program from an empty work directory and an empty cache.
SpecMain == InitMain /\ [][NextMain]_vars

\* the program is run again; the cache and the files stay
StartRun ==
    /\ pc \in {"done", "failed", "panicked"}
    /\ run < MaxRuns
    /\ run' = run + 1
    /\ pc' = "load"
    /\ source' = 1
    /\ by_name' = EmptyMap
    /\ version_by_color_scheme' = EmptyMap
    /\ version_by_name' = EmptyMap
    /\ trace' = [NoTrace EXCEPT !.prev =
                    IF pc = "done"
                    THEN Some([calls |-> trace.calls, dataFile |-> dataFile,
                               codeFile |-> codeFile])
                    ELSE None]
    /\ UNCHANGED <<now, cache, fetched, lastNet, calls, dataFile, codeFile>>

\* a second passes between two runs
Pause ==
    /\ pc \in {"done", "failed", "panicked"}
    /\ Tick(1)

\* the answers of a network that serves archives or nothing
PromptResponses(i) ==
    {r \in SourceResponses(i) :
        r.kind = "http" => r.status = StatusOk /\ r.body.content # None}

PromptAnswers == [url \in Urls |-> PromptResponses(SourceOf(url))]

NextRerun ==
    \/ Pause
    \/ LoadExisting
    \/ CallSyncToml
    \/ CallSyncOther
    \/ Lookup(Main)
    \/ Sent(Main, PromptAnswers)
    \/ Received(Main, PromptAnswers)
    \/ SyncToml
    \/ SyncAccumulate
    \/ MainBake
    \/ StartRun

\* Runs of the program, one after the other, over the same cache and files.
SpecRerun == InitMain /\ [][NextRerun]_vars

(***************************************************************************)
(* Properties of a run.                                                    *)
(***************************************************************************)
\* C1 (idempotence across runs): when a run delivers to add() the candidates
\* the previous run delivered, in the same order, starting from the dataset
\* the previous run wrote and with every URL live in the cache, it writes
\* the dataset the previous run wrote and issues no network request.
C1_Idempotence ==
    /\ pc = "done"
    /\ trace.prev # None
    /\ trace.calls = trace.prev[1].calls
    /\ trace.allLive
    => /\ dataFile = trace.prev[1].dataFile
       /\ trace.requests = 0

\* C8 (fail-fast, no partial publish): the two files are written only after
\* every source was fetched and merged; when the fetch of a source fails the
\* run ends with an error and neither file is written, whichever source it
\* was and however many were merged before it.
C8_FailFast ==
    trace.start # None =>
        /\ pc \in {"sync", "failed"} =>
              /\ dataFile = trace.start[1].dataFile
              /\ codeFile = trace.start[1].codeFile
        /\ trace.fetchFailed => pc = "failed"
        /\ dataFile # trace.start[1].dataFile \/ codeFile # trace.start[1].codeFile =>
              /\ source = Len(Sources) + 1
              /\ ~trace.fetchFailed

\* base16::sync fails after the archives and iterm2 were merged
C8_Witness ==
    /\ pc = "failed"
    /\ trace.fetchFailed
    /\ source = Iterm2 + 1
    /\ \E i \in DOMAIN trace.calls : Aliases(trace.calls[i]) = <<N_us, N_Ap>>
    /\ trace.calls # <<>>
    /\ by_name # EmptyMap
    /\ dataFile = None
    /\ codeFile = None

\* the documents of a tarball that parse, in the order of the tarball
RECURSIVE ParsedDocs(_)
ParsedDocs(entries) ==
    IF entries = <<>> THEN <<>>
    ELSE IF Head(entries).parsed # None THEN <<Head(entries)>> \o ParsedDocs(Tail(entries))
    ELSE ParsedDocs(Tail(entries))

\* C9 (fail isolation): while an archive is synced a document that fails to
\* parse is logged and skipped and leaves the registry as it is, and every
\* other document is passed to add() in the order of the archive: k
\* malformed documents among n give n - k add() calls and a sync that
\* succeeds.
C9_FailIsolation ==
    /\ trace.synced # None
    /\ trace.synced[1].fetch.ok
    /\ trace.synced[1].fetch.value.content # None
    /\ \/ pc = "sync" /\ source = trace.synced[1].source + 1
       \/ pc = "failed" /\ source = trace.synced[1].source
    =>  LET sy == trace.synced[1]
            entries == sy.fetch.value.content[1]
            docs == ParsedDocs(entries)
        IN  (\A i \in DOMAIN entries : entries[i].readable /\ entries[i].path.ext = "toml") =>
                /\ sy.ok
                /\ Len(sy.calls) = Len(docs)
                /\ Len(sy.logged) = Len(entries) - Len(docs)
                /\ \A i \in DOMAIN docs :
                      sy.calls[i] = toml_candidate(Sources[sy.source], docs[i])
                /\ \E st \in accumulate(
                       SyncState([by_name |-> sy.before,
                                  version_by_color_scheme |-> version_by_color_scheme,
                                  version_by_name |-> version_by_name]), sy.calls) :
                       by_name = st.by_name

\* a malformed document, then one that parses: one is logged, one is added
C9_Witness ==
    /\ trace.synced # None
    /\ pc = "sync"
    /\ source = trace.synced[1].source + 1
    /\ trace.synced[1].fetch.ok
    /\ trace.synced[1].fetch.value.content = Some(<<T_Bad, T_ApP2>>)
    /\ Len(trace.synced[1].calls) = 1
    /\ Len(trace.synced[1].logged) = 1
    /\ N_Ap \in DOMAIN by_name

(***************************************************************************)
(* Properties of the registry and of bake_for_config, continued.           *)
(***************************************************************************)
\* the alias list is strictly ascending: sorted, no name twice
StrictlyAscending(v) == \A i \in 1..(Len(v) - 1) : StrLess(v[i], v[i + 1])

\* C11 (alias normalization at finalize): every entry bake_for_config emits,
\* in the listing and in data.json, has an alias list that is sorted
\* ascending, has no duplicate, does not hold the entry's own name, and holds
\* exactly the names accumulated in the entry's alias list other than its own.
C11_AliasNormalization ==
    pc = "done" =>
        /\ Len(dataFile[1]) = Len(codeFile[1])
        /\ \A i \in DOMAIN dataFile[1] :
              LET rec == dataFile[1][i]
                  n == rec.metadata.name[1]
                  emitted == rec.metadata.aliases
              IN  /\ n \in DOMAIN by_name
                  /\ StrictlyAscending(emitted)
                  /\ n \notin Range(emitted)
                  /\ Range(emitted) = Range(Aliases(by_name[n])) \ {n}
                  /\ codeFile[1][i][1] = n
                  /\ codeFile[1][i][2][3].aliases = emitted

\* an entry that accumulated a name twice, its own name, and names out of
\* order is emitted with the one alias that is left
C11_Witness ==
    /\ pc = "done"
    /\ N_Ap \in DOMAIN by_name
    /\ Aliases(by_name[N_Ap]) = <<N_1, N_Ap, N_1>>
    /\ \E i \in DOMAIN dataFile[1] :
          /\ dataFile[1][i].metadata.name = Some(N_Ap)
          /\ dataFile[1][i].metadata.aliases = <<N_1>>

\* C12 (no entry is deleted during a run): no step of a run takes a key away
\* from by_name, so a name that is a key after load_existing or after an
\* add() is a key after every later add(), re-emitted or not.
C12_NoEntryDeleted ==
    [][pc = "sync" => DOMAIN by_name \subseteq DOMAIN by_name']_vars

\* after two add() calls a loaded name that no candidate re-emitted is still
\* a key, and so is the name of the entry the last add() superseded
C12_Witness ==
    /\ pc = "sync"
    /\ Len(trace.calls) = 2
    /\ LET B == trace.last[1].candidate
           before == trace.last[1].before
           loaded == DOMAIN load_existing(dataFile).by_name
       IN  /\ \E n \in loaded :
                 /\ \A i \in DOMAIN trace.calls : trace.calls[i].name # n
                 /\ n \in DOMAIN by_name
           /\ B.name \in DOMAIN before
           /\ before[B.name].data.colors # B.data.colors
           /\ by_name[B.name].data.colors = B.data.colors
           /\ Cardinality(DOMAIN by_name) = Cardinality(DOMAIN before)

\* C13 (version index coverage at load): after load_existing, for every
\* record of the prior dataset that carries a version V, the palette index
\* maps the record's serialized palette to V and the name index maps the
\* record's name and each one of its aliases to V.
C13_VersionIndexCoverage ==
    pc = "sync" =>
        \A i \in DOMAIN Records(dataFile) :
            LET rec == Records(dataFile)[i]
                ident == SerializeColors(rec.colors)
                names == {rec.metadata.name[1]} \cup Range(rec.metadata.aliases)
            IN  rec.metadata.wezterm_version # None =>
                    /\ ident \in DOMAIN version_by_color_scheme
                    /\ Some(version_by_color_scheme[ident]) = rec.metadata.wezterm_version
                    /\ \A n \in names :
                          /\ n \in DOMAIN version_by_name
                          /\ Some(version_by_name[n]) = rec.metadata.wezterm_version

\* C14 (version resolution precedence): when the candidate matches no entry,
\* the entry inserted for it carries the first hit among the palette index
\* at its serialized palette, the name index at its own name, and the name
\* index at each alias it declared, in the listed order; when all miss, the
\* version the candidate arrived with.
C14_VersionPrecedence ==
    trace.last # None =>
        LET B == trace.last[1].candidate
            before == trace.last[1].before
            ident == SerializeColors(B.data.colors)
            declared == Aliases(B)
            known == {i \in DOMAIN declared : declared[i] \in DOMAIN version_by_name}
            first == CHOOSE i \in known : \A j \in known : i <= j
        IN  SameColors(before, B) = {} =>
                /\ B.name \in DOMAIN by_name
                /\ Version(by_name[B.name]) =
                      IF ident \in DOMAIN version_by_color_scheme
                      THEN Some(version_by_color_scheme[ident])
                      ELSE IF B.name \in DOMAIN version_by_name
                      THEN Some(version_by_name[B.name])
                      ELSE IF known # {}
                      THEN Some(version_by_name[declared[first]])
                      ELSE Version(B)

\* the palette index and the name index know the candidate under two
\* versions: the entry carries the version of the palette
C14_Witness ==
    /\ pc = "sync"
    /\ trace.last # None
    /\ LET B == trace.last[1].candidate
           ident == SerializeColors(B.data.colors)
       IN  /\ SameColors(trace.last[1].before, B) = {}
           /\ ident \in DOMAIN version_by_color_scheme
           /\ B.name \in DOMAIN version_by_name
           /\ version_by_color_scheme[ident] # version_by_name[B.name]
           /\ Version(B) = NightlyVersion
           /\ Version(by_name[B.name]) = Some(version_by_color_scheme[ident])

\* C15 (the version indexes are read-only during a run): after any sequence
\* of add() calls the palette index and the name index are what
\* load_existing made of the prior dataset.
C15_IndexesReadOnly ==
    pc = "sync" =>
        /\ version_by_color_scheme = load_existing(dataFile).version_by_color_scheme
        /\ version_by_name = load_existing(dataFile).version_by_name

\* two add() calls changed by_name and entered a name the name index does
\* not know; the indexes are the loaded ones, and not empty
C15_Witness ==
    /\ pc = "sync"
    /\ Len(trace.calls) = 2
    /\ version_by_name # EmptyMap
    /\ version_by_color_scheme # EmptyMap
    /\ by_name # load_existing(dataFile).by_name
    /\ \E n \in DOMAIN by_name :
          /\ n \notin DOMAIN version_by_name
          /\ Version(by_name[n]) \notin {None, NightlyVersion}

\* C16 (exact match has no ties): from a registry whose entries have
\* pairwise distinct palettes, after any sequence of add() calls no two
\* entries of by_name have the same palette; the scan of add() matches at
\* most one entry and add() has one result, whatever the order in which
\* by_name is iterated.
C16_NoTies ==
    pc = "sync" =>
        /\ \A n1, n2 \in DOMAIN by_name :
              n1 # n2 => by_name[n1].data.colors # by_name[n2].data.colors
        /\ trace.last # None =>
              LET reg == [Registry EXCEPT !.by_name = trace.last[1].before]
                  B == trace.last[1].candidate
              IN  /\ Cardinality(matching(reg, B)) <= 1
                  /\ add(reg, B) = {by_name}

\* the last add() found its one match among several entries
C16_Witness ==
    /\ pc = "sync"
    /\ Len(trace.calls) = 2
    /\ Cardinality(DOMAIN by_name) = 3
    /\ LET reg == [Registry EXCEPT !.by_name = trace.last[1].before]
           B == trace.last[1].candidate
       IN  /\ Cardinality(matching(reg, B)) = 1
           /\ B.name \notin matching(reg, B)
           /\ \E n \in matching(reg, B) : Aliases(by_name[n]) # Aliases(reg.by_name[n])

\* the prior records without an ansi palette
Placeholders(file) ==
    {i \in DOMAIN Records(file) : Records(file)[i].colors.ansi = None}

\* what load_existing is to leave in by_name: the records with an ansi
\* palette, under their names
LoadedExactly ==
    LET existing == Records(dataFile)
        kept == DOMAIN existing \ Placeholders(dataFile)
        loaded == load_existing(dataFile).by_name
    IN  /\ DOMAIN loaded = {existing[i].metadata.name[1] : i \in kept}
        /\ \A i \in kept :
              LET e == loaded[existing[i].metadata.name[1]]
              IN  /\ e.name = existing[i].metadata.name[1]
                  /\ e.data.colors = existing[i].colors
                  /\ e.data.metadata = existing[i].metadata
        /\ Len(trace.calls) = 0 => by_name = loaded

\* C17 as stated (placeholder handling at load): after load_existing by_name
\* holds exactly the prior records that have an ansi palette, keyed by name;
\* a candidate that arrives with the name of a record lacking one is
\* inserted as a fresh entry, with the alias list it declared.
C17_PlaceholderNameIsInsertedFresh ==
    pc = "sync" =>
        /\ LoadedExactly
        /\ trace.last # None =>
              LET B == trace.last[1].candidate
              IN  (\E i \in Placeholders(dataFile) :
                      Records(dataFile)[i].metadata.name[1] = B.name) =>
                      /\ B.name \in DOMAIN by_name
                      /\ by_name[B.name].data.colors = B.data.colors
                      /\ Aliases(by_name[B.name]) = Aliases(B)

\* C17, amended: after load_existing by_name holds exactly the prior records
\* that have an ansi palette, keyed by name, so no entry is under the name
\* of a record lacking one; and for every add() of a candidate with the name
\* of such a record, the first of the run or a later one: when its palette
\* is that of an entry it is recorded as an alias of that entry and no entry
\* is made or changed under its name; when its palette is that of no entry
\* and no entry is under its name it is inserted as a fresh entry with the
\* alias list it declared; and when its palette is that of no entry and an
\* earlier candidate of the run is entered under its name it takes the place
\* of that entry and keeps the alias list of that entry, not the one it
\* declared.
C17_PlaceholderNameInheritsNothing ==
    pc = "sync" =>
        /\ LoadedExactly
        /\ \A i \in Placeholders(dataFile) :
              Records(dataFile)[i].metadata.name[1]
                  \notin DOMAIN load_existing(dataFile).by_name
        /\ trace.last # None =>
              LET B == trace.last[1].candidate
                  before == trace.last[1].before
              IN  (\E i \in Placeholders(dataFile) :
                      Records(dataFile)[i].metadata.name[1] = B.name) =>
                      /\ SameColors(before, B) # {} =>
                            /\ DOMAIN by_name = DOMAIN before
                            /\ \E n \in SameColors(before, B) :
                                  /\ Aliases(by_name[n])
                                        = Append(Aliases(before[n]), B.name)
                                  /\ \A k \in DOMAIN before \ {n} :
                                        by_name[k] = before[k]
                      /\ SameColors(before, B) = {} =>
                            /\ DOMAIN by_name = DOMAIN before \cup {B.name}
                            /\ by_name[B.name].data.colors = B.data.colors
                            /\ Aliases(by_name[B.name])
                                  = IF B.name \in DOMAIN before
                                    THEN Aliases(before[B.name])
                                    ELSE Aliases(B)
                            /\ \A k \in DOMAIN before \ {B.name} :
                                  by_name[k] = before[k]

\* a record without an ansi palette that lists an alias is skipped; a first
\* candidate with its name is entered, and a second candidate with its name,
\* another palette and a declared alias takes its place and keeps the empty
\* alias list of the first
C17_Witness ==
    /\ pc = "sync"
    /\ Len(trace.calls) = 2
    /\ trace.calls[1].name = trace.calls[2].name
    /\ LET B == trace.last[1].candidate
           before == trace.last[1].before
       IN  /\ \E i \in Placeholders(dataFile) :
                 /\ Records(dataFile)[i].metadata.name[1] = B.name
                 /\ Records(dataFile)[i].metadata.aliases # <<>>
           /\ B.name \in DOMAIN before
           /\ SameColors(before, B) = {}
           /\ Aliases(B) # <<>>
           /\ Aliases(before[B.name]) = <<>>
           /\ by_name[B.name].data.colors = B.data.colors
           /\ Aliases(by_name[B.name]) = <<>>

\* C18 (the emitted order is deterministic): registries holding the same
\* entries are emitted in one order, whatever the order in which by_name is
\* iterated: the sort key (prefix character, case-folded name) differs for
\* every two names that are keys of by_name together.
C18_DeterministicOrder ==
    /\ pc = "sync" =>
          \A n1, n2 \in DOMAIN by_name :
              n1 # n2 /\ make_prefix(n1) # None /\ make_prefix(n2) # None =>
                  make_prefix(n1) # make_prefix(n2)
    /\ pc = "done" =>
          \A order \in Orderings(DOMAIN by_name) :
              LET out == bake_for_config(by_name, order,
                                         [codeFile |-> codeFile, dataFile |-> dataFile])
              IN  /\ out.dataFile = dataFile
                  /\ out.codeFile = codeFile

\* C19 (names and aliases stay disjoint): from the empty registry, after any
\* sequence of add() calls no key of by_name is in the alias list of
\* another entry.
C19_NamesAndAliasesDisjoint ==
    pc = "sync" /\ trace.start # None /\ trace.start[1].dataFile = None =>
        \A n, m \in DOMAIN by_name :
            n # m => n \notin Range(Aliases(by_name[m]))

\* C20 (finalize never aborts): in every registry reached by load_existing
\* and add() calls make_prefix finds a prefix character for the name of
\* every entry, and bake_for_config does not panic.
C20_FinalizeNeverAborts ==
    /\ pc = "sync" => \A n \in DOMAIN by_name : make_prefix(n) # None
    /\ pc # "panicked"

====
